---- MODULE Spec2Model ----
(***************************************************************************)
(* Model of src/data_fetcher.py: class ExerciseDataFetcher and the driver  *)
(* under `if __name__ == "__main__"`.                                      *)
(*                                                                         *)
(* The driver constructs a fetcher, calls fetch_github_exercises once and  *)
(* then calls the query methods on the list it got back.  The model keeps  *)
(* that shape (fetch first, an uncaught exception ends the run) and lets   *)
(* the query methods be called in any order with any arguments.            *)
(*                                                                         *)
(* Python lists are objects with identity: `heap` maps a reference to the  *)
(* list's current contents, and two names alias when they hold the same    *)
(* reference.  Python values are tagged records (PyNone, PyStr, ...), a    *)
(* str is its sequence of characters, a dict is a function from its keys.  *)
(***************************************************************************)
EXTENDS Integers, Sequences, FiniteSets, TLC

\* Longest response body (number of exercise records) the fetch may return.
MaxLen == 2
\* How many times the caller may modify a list a method returned to it.
MaxClientOps == 1

----------------------------------------------------------------------------
\* Python values

PyNone == [t |-> "NoneType"]
PyStr(s) == [t |-> "str", s |-> s]
PyList(l) == [t |-> "list", l |-> l]
PyDict(d) == [t |-> "dict", d |-> d]
PyRef(r) == [t |-> "ref", r |-> r]
PyExc(e) == [t |-> "exception", e |-> e]
NaN == [t |-> "NaN"]

\* bool(x) for the values passed as criteria: None and "" are falsy.
Truthy(x) == x # PyNone /\ x # PyStr(<<>>)

\* dict.get(key, default)
Get(d, key, default) == IF key \in DOMAIN d THEN d[key] ELSE default

\* str.lower() on the characters the model uses
LowerChar(c) ==
    CASE c = "A" -> "a"
      [] c = "B" -> "b"
      [] OTHER -> c

Lower(s) == [i \in 1..Len(s) |-> LowerChar(s[i])]

\* The operator `sub in s` on two str: s has a slice equal to sub.
StrIn(sub, s) ==
    \E i \in 0..(Len(s) - Len(sub)) : SubSeq(s, i + 1, i + Len(sub)) = sub

\* The operator `x in l` on a list: some element equals x.
ListIn(x, l) == \E j \in 1..Len(l) : l[j] = x

----------------------------------------------------------------------------
\* The data the bounded model draws from

Barbell == PyStr(<<"b", "a", "r", "b", "e", "l", "l">>)
Dumbbell == PyStr(<<"d", "u", "m", "b", "b", "e", "l", "l">>)
Beginner == PyStr(<<"b", "e", "g", "i", "n", "n", "e", "r">>)
Expert == PyStr(<<"e", "x", "p", "e", "r", "t">>)
Chest == PyStr(<<"c", "h", "e", "s", "t">>)
Abs == PyStr(<<"a", "b", "s">>)

\* A complete record, with one key (images) outside the exported set.
R1 ==
    [id |-> PyStr(<<"1">>), name |-> PyStr(<<"A", "b">>), equipment |-> Barbell,
     level |-> Beginner, primaryMuscles |-> PyList(<<Chest>>),
     secondaryMuscles |-> PyList(<<Abs>>),
     instructions |-> PyList(<<PyStr(<<"g", "o">>)>>),
     category |-> PyStr(<<"s">>), force |-> PyStr(<<"p">>),
     mechanic |-> PyStr(<<"c">>), images |-> PyList(<<PyStr(<<"i">>)>>)]

\* Other equipment, a muscle listed twice.
R2 ==
    [id |-> PyStr(<<"2">>), name |-> PyStr(<<"B", "a">>), equipment |-> Dumbbell,
     level |-> Beginner, primaryMuscles |-> PyList(<<Chest, Abs, Chest>>)]

\* A record with no name, no equipment and no muscle list.
R3 == [id |-> PyStr(<<"3">>), level |-> Expert]

\* A record whose name is the empty string and whose muscle list is empty,
\* with no id and no level.
R4 ==
    [name |-> PyStr(<<>>), equipment |-> Barbell, primaryMuscles |-> PyList(<<>>),
     category |-> PyStr(<<"s">>)]

Pool == {R1, R2, R3, R4}

\* What the caller may append to a list it was handed.
ClientRecord == [id |-> PyStr(<<"9">>), name |-> PyStr(<<"a">>)]

RECURSIVE SeqsUpTo(_, _)
SeqsUpTo(S, n) ==
    IF n = 0 THEN {<<>>}
    ELSE LET shorter == SeqsUpTo(S, n - 1)
         IN shorter \cup {Append(s, x) : s \in {q \in shorter : Len(q) = n - 1}, x \in S}

\* The JSON arrays the remote resource may answer with.
Bodies == SeqsUpTo(Pool, MaxLen)

\* The ways the HTTP GET can fail.
FetchErrors == {"ConnectError", "TimeoutException", "HTTPStatusError"}

EquipmentArgs == {PyNone, PyStr(<<>>), Barbell}
LevelArgs == {PyNone, PyStr(<<>>), Beginner}
MuscleArgs == {PyNone, Chest}
NameArgs == {<<>>, <<"B">>, <<"a", "b">>, <<"c">>}

----------------------------------------------------------------------------
VARIABLES
    pc,         \* "start": constructed; "ready": the fetch returned; "raised": it raised
    requests,   \* HTTP requests sent so far
    files,      \* the output directory: file name -> contents
    heap,       \* list objects: reference -> current contents
    exercises,  \* the driver's variable `exercises`: PyNone or a reference
    ret,        \* the last call: its name, its arguments, the value it returned
    touched,    \* the caller has modified the returned list since that call
    clientOps   \* modifications the caller has made so far

vars == <<pc, requests, files, heap, exercises, ret, touched, clientOps>>

ExercisesRef == 1
ResultRef == 2

NoFiles == [f \in {} |-> PyNone]
NoLists == [r \in {} |-> <<>>]

\* open(path, 'w') ... write: the file is created or replaced.
Write(fs, path, content) ==
    [f \in DOMAIN fs \cup {path} |-> IF f = path THEN content ELSE fs[f]]

\* json.dump(value, f, indent=2, ensure_ascii=False)
JsonDump(value) == [t |-> "json", v |-> value]

\* The list a method built and returns: a new object.  The list the previous
\* call returned is no longer referenced by the driver and is dropped.
Alloc(h, l) ==
    [r \in {ExercisesRef, ResultRef} |-> IF r = ExercisesRef THEN h[ExercisesRef] ELSE l]

\* No new list is returned: only the dataset stays referenced.
Keep(h) == [r \in {ExercisesRef} |-> h[r]]

Init ==
    /\ pc = "start"
    /\ requests = 0
    /\ files = NoFiles
    /\ heap = NoLists
    /\ exercises = PyNone
    /\ ret = [op |-> "init", args |-> PyNone, val |-> PyNone]
    /\ touched = FALSE
    /\ clientOps = 0

----------------------------------------------------------------------------
\* pandas, as far as analyze_exercises and the CSV export use it

\* pd.json_normalize(records) on records whose values are scalars and lists:
\* one column per key seen in any record, NaN where a record lacks the key.
\* (The order of the columns is not modelled.)
JsonNormalize(records) ==
    LET columns == UNION {DOMAIN records[i] : i \in 1..Len(records)}
    IN [t |-> "DataFrame",
        columns |-> columns,
        rows |-> [i \in 1..Len(records) |->
                    [k \in columns |-> Get(records[i], k, NaN)]]]

\* df[key]: the cells of one column, top to bottom.
Column(df, key) == [i \in 1..Len(df.rows) |-> df.rows[i][key]]

\* df.to_csv(path, index=False)
ToCsv(df) == [t |-> "csv", header |-> df.columns, rows |-> df.rows]

\* The counting behind Series.value_counts(dropna=...): one pass over the
\* cells, a missing cell (NaN, None) skipped when dropna.
RECURSIVE CountLoop(_, _, _, _)
CountLoop(values, i, counts, dropna) ==
    IF i > Len(values) THEN counts
    ELSE LET v == values[i]
             next == IF dropna /\ v \in {NaN, PyNone} THEN counts
                     ELSE IF v \in DOMAIN counts THEN [counts EXCEPT ![v] = @ + 1]
                     ELSE [x \in DOMAIN counts \cup {v} |-> IF x = v THEN 1 ELSE counts[x]]
         IN CountLoop(values, i + 1, next, dropna)

\* Mutant: value_counts(dropna=False), missing cells counted as a value.
ValueCounts_keepna(values) == CountLoop(values, 1, [x \in {} |-> 0], FALSE)

\* Series.value_counts(): value -> number of cells holding it, missing cells
\* dropped (dropna defaults to True).  (The order of the entries is not
\* modelled.)
ValueCounts(values) == CountLoop(values, 1, [x \in {} |-> 0], TRUE)

\* for muscles in df['primaryMuscles']: if isinstance(muscles, list): extend
RECURSIVE ExtendLoop(_, _, _)
ExtendLoop(cells, i, all_muscles) ==
    IF i > Len(cells) THEN all_muscles
    ELSE ExtendLoop(cells, i + 1,
                    IF cells[i].t = "list" THEN all_muscles \o cells[i].l
                    ELSE all_muscles)

----------------------------------------------------------------------------
\* The methods of ExerciseDataFetcher, as functions of what they read

\* analyze_exercises: the DataFrame it returns and the breakdowns it prints,
\* one per section whose column exists.
analyze_exercises(exs) ==
    LET df == JsonNormalize(exs)
        sections == {"equipment", "level", "primaryMuscles"} \cap df.columns
        breakdown(k) ==
            IF k = "primaryMuscles"
            THEN ValueCounts(ExtendLoop(Column(df, k), 1, <<>>))
            ELSE ValueCounts(Column(df, k))
    IN [val |-> df, printed |-> [k \in sections |-> breakdown(k)]]

\* The contents of `filtered` at the return of filter_exercises: each `if`
\* whose criterion is truthy keeps the records that pass its comprehension.
Filtered(f0, equipment, level, muscle) ==
    LET f1 == IF Truthy(equipment)
              THEN SelectSeq(f0, LAMBDA e : Get(e, "equipment", PyNone) = equipment)
              ELSE f0
        f2 == IF Truthy(level)
              THEN SelectSeq(f1, LAMBDA e : Get(e, "level", PyNone) = level)
              ELSE f1
    IN IF Truthy(muscle)
       THEN SelectSeq(f2, LAMBDA e : ListIn(muscle, Get(e, "primaryMuscles", PyList(<<>>)).l))
       ELSE f2

\* Mutant: the filtering done on the argument itself (exercises[:] = ...).
filter_exercises_in_place(h, ref, equipment, level, muscle) ==
    [heap |-> [r \in {ExercisesRef} |-> Filtered(h[ref], equipment, level, muscle)],
     val |-> PyRef(ref)]

\* filter_exercises: `filtered` starts as the argument itself and is rebound
\* to a new list by each comprehension that runs.
filter_exercises(h, ref, equipment, level, muscle) ==
    IF Truthy(equipment) \/ Truthy(level) \/ Truthy(muscle)
    THEN [heap |-> Alloc(h, Filtered(h[ref], equipment, level, muscle)),
          val |-> PyRef(ResultRef)]
    ELSE [heap |-> Keep(h), val |-> PyRef(ref)]

RECURSIVE NameLoop(_, _, _)
NameLoop(exs, name_lower, i) ==
    IF i > Len(exs) THEN PyNone
    ELSE IF StrIn(name_lower, Lower(Get(exs[i], "name", PyStr(<<>>)).s))
         THEN PyDict(exs[i])
         ELSE NameLoop(exs, name_lower, i + 1)

\* Mutant: the query compared as given, not lower-cased.
get_exercise_by_name_query_as_given(exs, name) == NameLoop(exs, name, 1)

\* Mutant: a record whose name is missing or empty is passed over.
get_exercise_by_name_named_only(exs, name) ==
    NameLoop(SelectSeq(exs, LAMBDA e : Get(e, "name", PyStr(<<>>)) # PyStr(<<>>)),
             Lower(name), 1)

\* get_exercise_by_name
get_exercise_by_name(exs, name) == NameLoop(exs, Lower(name), 1)

\* Mutant: the list keys read like the scalar ones, with no [] default.
Simplified_without_defaults(ex) ==
    [id |-> Get(ex, "id", PyNone),
     name |-> Get(ex, "name", PyNone),
     equipment |-> Get(ex, "equipment", PyNone),
     level |-> Get(ex, "level", PyNone),
     primaryMuscles |-> Get(ex, "primaryMuscles", PyNone),
     secondaryMuscles |-> Get(ex, "secondaryMuscles", PyNone),
     instructions |-> Get(ex, "instructions", PyNone),
     category |-> Get(ex, "category", PyNone),
     force |-> Get(ex, "force", PyNone),
     mechanic |-> Get(ex, "mechanic", PyNone)]

\* The dict literal `simplified` of export_for_gymmando.
Simplified(ex) ==
    [id |-> Get(ex, "id", PyNone),
     name |-> Get(ex, "name", PyNone),
     equipment |-> Get(ex, "equipment", PyNone),
     level |-> Get(ex, "level", PyNone),
     primaryMuscles |-> Get(ex, "primaryMuscles", PyList(<<>>)),
     secondaryMuscles |-> Get(ex, "secondaryMuscles", PyList(<<>>)),
     instructions |-> Get(ex, "instructions", PyList(<<>>)),
     category |-> Get(ex, "category", PyNone),
     force |-> Get(ex, "force", PyNone),
     mechanic |-> Get(ex, "mechanic", PyNone)]

\* export_for_gymmando with the default output_file: builds the list, writes
\* it under the output directory, returns it.
export_for_gymmando(h, fs, ref) ==
    LET gymmando_format == [i \in 1..Len(h[ref]) |-> Simplified(h[ref][i])]
    IN [heap |-> Alloc(h, gymmando_format),
        files |-> Write(fs, "gymmando_exercises.json", JsonDump(gymmando_format)),
        val |-> PyRef(ResultRef)]

----------------------------------------------------------------------------
\* The steps of a run

\* Mutant: the GET is tried a second time before the exception is let out.
fetch_raises_after_retry(error) ==
    /\ pc = "start"
    /\ requests' = requests + 2
    /\ pc' = "raised"
    /\ ret' = [op |-> "fetch", args |-> PyNone, val |-> PyExc(error)]
    /\ UNCHANGED <<files, heap, exercises, touched, clientOps>>

\* fetch_github_exercises, the GET fails or raise_for_status() raises: the
\* exception leaves the method and, uncaught in the driver, ends the run.
fetch_raises(error) ==
    /\ pc = "start"
    /\ requests' = requests + 1
    /\ pc' = "raised"
    /\ ret' = [op |-> "fetch", args |-> PyNone, val |-> PyExc(error)]
    /\ UNCHANGED <<files, heap, exercises, touched, clientOps>>

\* fetch_github_exercises, the GET succeeds with `body`: both files are
\* written and the list is returned and bound to `exercises`.
fetch_returns(body) ==
    /\ pc = "start"
    /\ requests' = requests + 1
    /\ files' = Write(Write(files, "github_exercises.json", JsonDump(body)),
                      "github_exercises.csv", ToCsv(JsonNormalize(body)))
    /\ heap' = [r \in {ExercisesRef} |-> body]
    /\ exercises' = PyRef(ExercisesRef)
    /\ ret' = [op |-> "fetch", args |-> PyNone, val |-> PyRef(ExercisesRef)]
    /\ pc' = "ready"
    /\ touched' = FALSE
    /\ UNCHANGED clientOps

Fetch ==
    \/ \E error \in FetchErrors : fetch_raises(error)
    \/ \E body \in Bodies : fetch_returns(body)

Analyze ==
    /\ pc = "ready"
    /\ LET r == analyze_exercises(heap[exercises.r])
       IN /\ ret' = [op |-> "analyze", args |-> PyNone, val |-> r.val, printed |-> r.printed]
          /\ heap' = Keep(heap)
    /\ touched' = FALSE
    /\ UNCHANGED <<pc, requests, files, exercises, clientOps>>

Filter ==
    /\ pc = "ready"
    /\ \E equipment \in EquipmentArgs, level \in LevelArgs, muscle \in MuscleArgs :
          LET r == filter_exercises(heap, exercises.r, equipment, level, muscle)
          IN /\ ret' = [op |-> "filter",
                        args |-> [equipment |-> equipment, level |-> level, muscle |-> muscle],
                        val |-> r.val]
             /\ heap' = r.heap
    /\ touched' = FALSE
    /\ UNCHANGED <<pc, requests, files, exercises, clientOps>>

Lookup ==
    /\ pc = "ready"
    /\ \E name \in NameArgs :
          ret' = [op |-> "lookup", args |-> PyStr(name),
                  val |-> get_exercise_by_name(heap[exercises.r], name)]
    /\ heap' = Keep(heap)
    /\ touched' = FALSE
    /\ UNCHANGED <<pc, requests, files, exercises, clientOps>>

Export ==
    /\ pc = "ready"
    /\ LET r == export_for_gymmando(heap, files, exercises.r)
       IN /\ ret' = [op |-> "export", args |-> PyNone, val |-> r.val]
          /\ heap' = r.heap
          /\ files' = r.files
    /\ touched' = FALSE
    /\ UNCHANGED <<pc, requests, exercises, clientOps>>

\* The caller appends to the list filter_exercises handed back.
ClientAppend ==
    /\ pc = "ready"
    /\ ret.op = "filter"
    /\ clientOps < MaxClientOps
    /\ heap' = [heap EXCEPT ![ret.val.r] = Append(@, ClientRecord)]
    /\ touched' = TRUE
    /\ clientOps' = clientOps + 1
    /\ UNCHANGED <<pc, requests, files, exercises, ret>>

\* The caller removes the last element of the list filter_exercises handed back.
ClientPop ==
    /\ pc = "ready"
    /\ ret.op = "filter"
    /\ clientOps < MaxClientOps
    /\ Len(heap[ret.val.r]) > 0
    /\ heap' = [heap EXCEPT ![ret.val.r] = SubSeq(@, 1, Len(@) - 1)]
    /\ touched' = TRUE
    /\ clientOps' = clientOps + 1
    /\ UNCHANGED <<pc, requests, files, exercises, ret>>

Next ==
    \/ Fetch
    \/ Analyze
    \/ Filter
    \/ Lookup
    \/ Export
    \/ ClientAppend
    \/ ClientPop

Spec == Init /\ [][Next]_vars

----------------------------------------------------------------------------
\* Properties

\* The dataset: the list `exercises` refers to.
Dataset == heap[ExercisesRef]

\* The list the last call returned.
Returned == heap[ret.val.r]

\* The last call was filter_exercises and its result is as it was returned.
FilterReturned == pc = "ready" /\ ret.op = "filter" /\ ~touched

RECURSIVE SubseqFrom(_, _, _, _)
SubseqFrom(r, d, i, j) ==
    IF i > Len(r) THEN TRUE
    ELSE IF j > Len(d) THEN FALSE
    ELSE IF r[i] = d[j] THEN SubseqFrom(r, d, i + 1, j + 1)
    ELSE SubseqFrom(r, d, i, j + 1)

\* r is d with some elements left out, the rest in d's order.
IsSubsequence(r, d) == SubseqFrom(r, d, 1, 1)

\* sub occurs in s at some position (stated per character).
Occurs(sub, s) ==
    \E k \in 1..(Len(s) + 1) :
        \A j \in 1..Len(sub) : k + j - 1 <= Len(s) /\ s[k + j - 1] = sub[j]

\* The name of a record, the empty string when the key is missing.
NameOf(e) == IF "name" \in DOMAIN e THEN e.name.s ELSE <<>>

Min(S) == CHOOSE x \in S : \A y \in S : x <= y

\* C1: filter_exercises returns a sub-sequence of the dataset in the dataset's
\* order, and every retained record satisfies every criterion that was passed
\* (not None): equipment equal, level equal, muscle in primaryMuscles.
C1_FilterSubsequenceAllCriteria ==
    FilterReturned =>
        /\ IsSubsequence(Returned, Dataset)
        /\ \A j \in 1..Len(Returned) :
              LET e == Returned[j]
              IN /\ ret.args.equipment # PyNone =>
                        "equipment" \in DOMAIN e /\ e.equipment = ret.args.equipment
                 /\ ret.args.level # PyNone =>
                        "level" \in DOMAIN e /\ e.level = ret.args.level
                 /\ ret.args.muscle # PyNone =>
                        /\ "primaryMuscles" \in DOMAIN e
                        /\ \E m \in 1..Len(e.primaryMuscles.l) :
                              e.primaryMuscles.l[m] = ret.args.muscle

\* No criterion of the last call was the empty string.
NoEmptyCriterion ==
    ret.args.equipment # PyStr(<<>>) /\ ret.args.level # PyStr(<<>>)

\* What does hold of filter_exercises: the statement above for the calls
\* whose criteria are None or non-empty strings.
FilterCriteriaHoldWhenNotEmpty ==
    (FilterReturned /\ NoEmptyCriterion) => C1_FilterSubsequenceAllCriteria

\* C2: with an equipment (level) criterion that is not None, the empty string
\* included, no record that lacks the equipment (level) key is retained.
C2_AbsentFieldNeverRetained ==
    FilterReturned =>
        \A j \in 1..Len(Returned) :
            /\ ret.args.equipment # PyNone => "equipment" \in DOMAIN Returned[j]
            /\ ret.args.level # PyNone => "level" \in DOMAIN Returned[j]

\* The indices of the dataset whose lower-cased name contains the lower-cased query.
Matches(q) ==
    {i \in 1..Len(Dataset) : Occurs(Lower(q), Lower(NameOf(Dataset[i])))}

\* C3: get_exercise_by_name returns the record of lowest index whose name
\* contains the query, both lower-cased and a missing name read as "", and
\* returns None exactly when no record matches.
C3_LookupFirstMatch ==
    (pc = "ready" /\ ret.op = "lookup") =>
        LET M == Matches(ret.args.s)
        IN IF M = {} THEN ret.val = PyNone
           ELSE ret.val = PyDict(Dataset[Min(M)])

\* The match is the second record, found through a query in another case,
\* after a first record that does not match.
C3_Witness ==
    /\ pc = "ready"
    /\ ret.op = "lookup"
    /\ ret.args = PyStr(<<"B">>)
    /\ Len(Dataset) = 2
    /\ Dataset[1] = R3
    /\ Dataset[2] = R1
    /\ ret.val = PyDict(R1)

\* The indices of the dataset whose name is present and not empty.
NonEmptyNames == {i \in 1..Len(Dataset) : NameOf(Dataset[i]) # <<>>}

\* C4 as stated: with the empty query, the result is the first record whose
\* name is not empty; records with a missing or empty name are skipped.
C4_EmptyQuerySkipsEmptyNames ==
    (pc = "ready" /\ ret.op = "lookup" /\ ret.args = PyStr(<<>>)) =>
        IF NonEmptyNames = {} THEN ret.val = PyNone
        ELSE ret.val = PyDict(Dataset[Min(NonEmptyNames)])

\* C4 as the code has it: with the empty query, the result is the first
\* record of the dataset whatever its name, and None for an empty dataset.
C4_EmptyQueryFirstRecord ==
    (pc = "ready" /\ ret.op = "lookup" /\ ret.args = PyStr(<<>>)) =>
        IF Len(Dataset) = 0 THEN ret.val = PyNone
        ELSE ret.val = PyDict(Dataset[1])

\* The empty query on a dataset that starts with a nameless record and has a
\* named one after it.
C4_Witness ==
    /\ pc = "ready"
    /\ ret.op = "lookup"
    /\ ret.args = PyStr(<<>>)
    /\ Len(Dataset) = 2
    /\ "name" \notin DOMAIN Dataset[1]
    /\ NameOf(Dataset[2]) # <<>>
    /\ ret.val = PyDict(Dataset[1])

ExportKeys ==
    {"id", "name", "equipment", "level", "primaryMuscles", "secondaryMuscles",
     "instructions", "category", "force", "mechanic"}

ListKeys == {"primaryMuscles", "secondaryMuscles", "instructions"}

\* C5: export_for_gymmando returns one record per input record, in order,
\* each with exactly the ten keys; a key the input has keeps its value, a
\* missing list key is [], a missing scalar key is None, other keys are gone.
C5_ExportProjection ==
    (pc = "ready" /\ ret.op = "export") =>
        /\ Len(Returned) = Len(Dataset)
        /\ \A i \in 1..Len(Dataset) :
              /\ DOMAIN Returned[i] = ExportKeys
              /\ \A k \in ExportKeys :
                    Returned[i][k] =
                        IF k \in DOMAIN Dataset[i] THEN Dataset[i][k]
                        ELSE IF k \in ListKeys THEN PyList(<<>>)
                        ELSE PyNone

\* An export of a record with missing keys followed by one with an extra key.
C5_Witness ==
    /\ pc = "ready"
    /\ ret.op = "export"
    /\ Len(Dataset) = 2
    /\ Dataset[1] = R3
    /\ Dataset[2] = R1
    /\ Returned[1].primaryMuscles = PyList(<<>>)
    /\ Returned[1].name = PyNone
    /\ "images" \notin DOMAIN Returned[2]

\* C6: obtaining the reduced projection leaves the files on disk as they were.
C6_ProjectionLeavesDiskUnchanged == [][Export => files' = files]_vars

\* C7: a call of analyze_exercises, filter_exercises, get_exercise_by_name or
\* export_for_gymmando leaves the dataset as it was: same length, same
\* records in the same order, same keys and values.  (From "ready", the steps
\* that are not the caller's own modifications are exactly those calls.)
C7_CallsLeaveDatasetUnchanged ==
    [][(pc = "ready" /\ clientOps' = clientOps) =>
          /\ exercises' = exercises
          /\ heap'[ExercisesRef] = heap[ExercisesRef]]_vars

\* A filter that dropped a record, with the dataset still whole.
C7_Witness ==
    /\ FilterReturned
    /\ ret.val = PyRef(ResultRef)
    /\ Len(Dataset) = 2
    /\ Len(Returned) = 1
    /\ files["github_exercises.json"] = JsonDump(Dataset)

\* C8: what the caller adds to or removes from the list filter_exercises
\* returned never changes the dataset, whatever the criteria were.
C8_FilterResultIsNewList ==
    [][(ret.op = "filter" /\ (ClientAppend \/ ClientPop)) =>
          heap'[ExercisesRef] = heap[ExercisesRef]]_vars

\* What does hold of filter_exercises: the list is a new one whenever some
\* criterion is truthy.
FilterReboundIsNewList ==
    (FilterReturned /\ (Truthy(ret.args.equipment) \/ Truthy(ret.args.level)
                           \/ Truthy(ret.args.muscle))) =>
        ret.val # exercises

\* C9: a failed GET ends the run after one request: nothing written, no
\* dataset bound or returned, no further step possible.
C9_FailedFetchAborts ==
    pc = "raised" =>
        /\ requests = 1
        /\ files = NoFiles
        /\ heap = NoLists
        /\ exercises = PyNone
        /\ ret.op = "fetch"
        /\ ret.val.t = "exception"
        /\ ~ENABLED Next

\* The GET answered with a failure status.
C9_Witness ==
    /\ pc = "raised"
    /\ ret.val = PyExc("HTTPStatusError")
    /\ requests = 1

\* The records of the dataset that have key k.
Having(k) == {i \in 1..Len(Dataset) : k \in DOMAIN Dataset[i]}

\* Every position of every primaryMuscles list of the dataset.
MuscleSlots ==
    UNION {{<<i, j>> : j \in 1..Len(Dataset[i].primaryMuscles.l)} :
              i \in Having("primaryMuscles")}

\* C10: the equipment (level) breakdown gives each value the number of
\* records holding it; the primaryMuscles breakdown gives each muscle its
\* number of occurrences over all lists; a key no record has gets no section.
C10_AnalyzeCounts ==
    (pc = "ready" /\ ret.op = "analyze") =>
        /\ \A k \in {"equipment", "level"} :
              IF Having(k) = {} THEN k \notin DOMAIN ret.printed
              ELSE /\ k \in DOMAIN ret.printed
                   /\ DOMAIN ret.printed[k] = {Dataset[i][k] : i \in Having(k)}
                   /\ \A v \in DOMAIN ret.printed[k] :
                         ret.printed[k][v] =
                             Cardinality({i \in Having(k) : Dataset[i][k] = v})
        /\ IF Having("primaryMuscles") = {}
           THEN "primaryMuscles" \notin DOMAIN ret.printed
           ELSE /\ "primaryMuscles" \in DOMAIN ret.printed
                /\ DOMAIN ret.printed.primaryMuscles =
                       {Dataset[o[1]].primaryMuscles.l[o[2]] : o \in MuscleSlots}
                /\ \A m \in DOMAIN ret.printed.primaryMuscles :
                      ret.printed.primaryMuscles[m] =
                          Cardinality({o \in MuscleSlots :
                                          Dataset[o[1]].primaryMuscles.l[o[2]] = m})

\* Two records, one listing a muscle twice, one without equipment.
C10_Witness ==
    /\ pc = "ready"
    /\ ret.op = "analyze"
    /\ Len(Dataset) = 2
    /\ Dataset[1] = R2
    /\ Dataset[2] = R3
    /\ ret.printed.primaryMuscles[Chest] = 2
    /\ ret.printed.level[Beginner] = 1
    /\ DOMAIN ret.printed.equipment = {Dumbbell}

====
